---------------------------- MODULE Spec2Model ----------------------------
(***************************************************************************)
(* Model of check_dependence_by_org_generic.py: the organization-wide      *)
(* dependency scan (get_org_repos, check_dep_in_repo, main).               *)
(*                                                                         *)
(* Python strings whose characters the code inspects (repository names,    *)
(* dependency keys, the prefix, the status labels) are tuples of one-      *)
(* character strings, so that startswith, concatenation (f-strings) and    *)
(* the lexicographic order used by sorted() are computed, not assumed.     *)
(* A Python dict is a record [keys, val]: keys is the insertion order,     *)
(* val the mapping.                                                        *)
(***************************************************************************)
EXTENDS Integers, Sequences, FiniteSets, TLC

VARIABLES
    orgs,          \* main: the organization names read from txt_file
    dep_prefix,    \* main: args.dep
    max_workers,   \* main: args.max_workers
    pc,            \* position of the main thread
    oi,            \* index in orgs of the organization being processed
    page,          \* get_org_repos: page number of the next fetch
    repos,         \* get_org_repos: names collected so far / main: its return value
    futures,       \* the tasks submitted to the executor, in submission order
    org_results,   \* main: dict repo -> status of the current organization
    all_results,   \* main: dict org -> org_results
    report,        \* the status_groups emitted per organization, in output order
    listing,       \* what each call of get_org_repos returned, in call order
    fetched,       \* get_org_repos: the page fetches and sleeps of the call under way
    probe_call,    \* arguments of a direct call of check_dep_in_repo
    probe_ret      \* what that call produced

vars == <<orgs, dep_prefix, max_workers, pc, oi, page, repos, futures,
          org_results, all_results, report, listing, fetched, probe_call,
          probe_ret>>

---------------------------------------------------------------------------
(* Bounds of the model *)

MaxRepos == 2
MaxPages == 2
MaxWorkers == 2
MaxDeps == 2

---------------------------------------------------------------------------
(* Python strings *)

Range(s) == {s[i] : i \in DOMAIN s}

\* ord(): the code points of the characters that occur in names.
Digits == <<"0", "1", "2", "3", "4", "5", "6", "7", "8", "9">>
Upper ==
    <<"A", "B", "C", "D", "E", "F", "G", "H", "I", "J", "K", "L", "M",
      "N", "O", "P", "Q", "R", "S", "T", "U", "V", "W", "X", "Y", "Z">>
Lower ==
    <<"a", "b", "c", "d", "e", "f", "g", "h", "i", "j", "k", "l", "m",
      "n", "o", "p", "q", "r", "s", "t", "u", "v", "w", "x", "y", "z">>

Ord(c) ==
    IF c \in Range(Digits) THEN 47 + (CHOOSE i \in DOMAIN Digits : Digits[i] = c)
    ELSE IF c \in Range(Upper) THEN 64 + (CHOOSE i \in DOMAIN Upper : Upper[i] = c)
    ELSE IF c \in Range(Lower) THEN 96 + (CHOOSE i \in DOMAIN Lower : Lower[i] = c)
    ELSE CASE c = " " -> 32
           [] c = "-" -> 45
           [] c = "." -> 46
           [] c = "/" -> 47
           [] c = "_" -> 95

\* A startswith that is an equality test.
startswith_exact(s, prefix) == s = prefix

\* str.startswith
startswith(s, prefix) ==
    /\ Len(prefix) <= Len(s)
    /\ SubSeq(s, 1, Len(prefix)) = prefix

\* str.__lt__: lexicographic by code point, a proper prefix is smaller
StrLess(a, b) ==
    \E i \in 1..(Len(a) + 1) :
        /\ i <= Len(b)
        /\ \A j \in 1..(i - 1) : a[j] = b[j]
        /\ (i = Len(a) + 1 \/ Ord(a[i]) < Ord(b[i]))

S_Has == <<"H", "a", "s", " ">>
S_No == <<"N", "o", " ">>
S_NoPackageJson ==
    <<"N", "o", " ", "p", "a", "c", "k", "a", "g", "e", ".", "j", "s", "o", "n">>
S_Error == <<"E", "r", "r", "o", "r">>

S_ag_grid == <<"a", "g", "-", "g", "r", "i", "d">>
S_package_json == <<"p", "a", "c", "k", "a", "g", "e", ".", "j", "s", "o", "n">>
S_ag_grid_community == S_ag_grid \o <<"-", "c", "o", "m", "m", "u", "n", "i", "t", "y">>
S_ag_gridx == S_ag_grid \o <<"x">>
S_AG_GRID == <<"A", "G", "-", "G", "R", "I", "D">>
S_lodash == <<"l", "o", "d", "a", "s", "h">>

\* The status labels of check_dep_in_repo and of status_groups.
HasLabel(prefix) == S_Has \o prefix
NoLabel(prefix) == S_No \o prefix

---------------------------------------------------------------------------
(* Python dicts *)

EmptyDict == [keys |-> <<>>, val |-> <<>>]

\* d[k] = v: a new key goes last, an existing key keeps its place.
DictSet(d, k, v) ==
    [keys |-> IF k \in Range(d.keys) THEN d.keys ELSE Append(d.keys, k),
     val  |-> [x \in (DOMAIN d.val) \cup {k} |-> IF x = k THEN v ELSE d.val[x]]]

\* list(d.items())
Items(d) == [i \in DOMAIN d.keys |-> <<d.keys[i], d.val[d.keys[i]]>>]

---------------------------------------------------------------------------
(* JSON values, as json.loads builds them *)

JNull == [type |-> "null"]
JNumber == [type |-> "number"]
JArray == [type |-> "array"]
JString(s) == [type |-> "string", s |-> s]
JObject(members) == [type |-> "object", members |-> members]

\* dict.get(key, default) on a parsed JSON object
dict_get(data, key, default) ==
    IF key \in DOMAIN data.members THEN data.members[key] ELSE default

\* {**deps, **dev_deps}: the keys of both, dev_deps winning on a shared key
merge(deps, dev_deps) ==
    [k \in (DOMAIN deps.members) \cup (DOMAIN dev_deps.members) |->
        IF k \in DOMAIN dev_deps.members THEN dev_deps.members[k]
        ELSE deps.members[k]]

\* json.loads(response.text): a body is either text that is not JSON, for
\* which json.loads raises JSONDecodeError, or the text of a JSON value.
NotJson == [json |-> FALSE]
JsonText(v) == [json |-> TRUE, value |-> v]
json_loads(text) ==
    IF text.json THEN [raised |-> FALSE, value |-> text.value]
    ELSE [raised |-> TRUE]

---------------------------------------------------------------------------
(* What the manifest endpoint can answer *)

DepKeys == {S_ag_grid_community, S_ag_gridx, S_AG_GRID, S_lodash}
Versions == {JString(<<"1", ".", "0">>), JString(S_ag_grid)}

\* name -> version mappings of at most MaxDeps names
DepMappings ==
    {JObject(f) : f \in UNION {[K -> Versions] :
                     K \in {X \in SUBSET DepKeys : Cardinality(X) <= MaxDeps}}}

\* JSON values that are no mapping
NonMappings == {JNull, JNumber, JArray, JString(S_ag_grid)}

\* JSON objects with optional members dependencies and devDependencies
ManifestObjects ==
    {JObject(m) : m \in UNION {[K -> DepMappings \cup NonMappings] :
                     K \in SUBSET {"dependencies", "devDependencies"}}}

Bodies == {NotJson} \cup {JsonText(v) : v \in ManifestObjects \cup NonMappings}

StatusCodes == {200, 204, 304, 403, 404, 500}

\* requests.get either raises (a RequestException) or returns a response.
TransportFailures ==
    {[kind |-> "exception", exc |-> e] : e \in {"Timeout", "ConnectionError"}}
HttpResponse(code, text) == [kind |-> "response", status_code |-> code, text |-> text]
Responses ==
    TransportFailures \cup {HttpResponse(c, b) : c \in StatusCodes, b \in Bodies}

\* Response.raise_for_status raises HTTPError for a 4xx or 5xx status.
raises_for_status(status_code) == 400 <= status_code /\ status_code < 600

---------------------------------------------------------------------------
(* check_dep_in_repo *)

\* How a Python call ends.
Returned(repo, status) == [kind |-> "return", repo |-> repo, status |-> status]
ReturnedNone == [kind |-> "none"]
Raised(exc) == [kind |-> "raise", exc |-> exc]

\* lines 53-59, with data the value json.loads returned
scan_manifest(repo, prefix, data) ==
    IF data.type # "object" THEN Raised("AttributeError")
    ELSE LET deps == dict_get(data, "dependencies", JObject(<<>>))
             dev_deps == dict_get(data, "devDependencies", JObject(<<>>))
         IN  IF deps.type # "object" \/ dev_deps.type # "object"
             THEN Raised("TypeError")
             ELSE LET all_deps == merge(deps, dev_deps)
                  IN  IF \E key \in DOMAIN all_deps : startswith(key, prefix)
                      THEN Returned(repo, HasLabel(prefix))
                      ELSE Returned(repo, NoLabel(prefix))

\* check_dep_in_repo with raise_for_status called before the 404 test.
check_dep_in_repo_status_first(repo, prefix, response) ==
    IF response.kind = "exception" THEN Returned(repo, S_Error)
    ELSE IF raises_for_status(response.status_code) THEN Returned(repo, S_Error)
    ELSE IF response.status_code = 404 THEN Returned(repo, S_NoPackageJson)
    ELSE IF response.status_code = 200
         THEN LET parsed == json_loads(response.text)
              IN  IF parsed.raised THEN Returned(repo, S_Error)
                  ELSE scan_manifest(repo, prefix, parsed.value)
    ELSE ReturnedNone

\* lines 44-63
check_dep_in_repo(repo, prefix, response) ==
    IF response.kind = "exception" THEN Returned(repo, S_Error)
    ELSE IF response.status_code = 404 THEN Returned(repo, S_NoPackageJson)
    ELSE IF raises_for_status(response.status_code) THEN Returned(repo, S_Error)
    ELSE IF response.status_code = 200
         THEN LET parsed == json_loads(response.text)
              IN  IF parsed.raised THEN Returned(repo, S_Error)
                  ELSE scan_manifest(repo, prefix, parsed.value)
    ELSE ReturnedNone

---------------------------------------------------------------------------
(* Inputs *)

S_acme == <<"a", "c", "m", "e">>
S_beta == <<"b", "e", "t", "a">>
OrgNames == {S_acme, S_beta}
RepoNames == {<<"a">>, <<"B">>}
Prefixes == {S_ag_grid, S_package_json}

full_name(org, name) == org \o <<"/">> \o name

NotCalled == [kind |-> "pending"]

NoResponse == [kind |-> "none"]
NoCall == [kind |-> "none"]

\* The manifest answers drawn during a whole run: one per way a probe ends.
ScanResponses ==
    { [kind |-> "exception", exc |-> "Timeout"],
      HttpResponse(404, NotJson),
      HttpResponse(200, JsonText(JObject(
          [k \in {"dependencies"} |->
              JObject([d \in {S_ag_grid_community} |-> JString(<<"1", ".", "0">>)])]))),
      HttpResponse(200, JsonText(JObject(
          [k \in {"devDependencies"} |->
              JObject([d \in {S_lodash} |-> JString(<<"1", ".", "0">>)])]))),
      HttpResponse(204, NotJson),
      HttpResponse(200, JsonText(JArray)) }

\* Sequences over S of length lo..hi
SeqsOf(S, lo, hi) == UNION {[1..n -> S] : n \in lo..hi}

\* The organization lists of the runs: one organization, two organizations in
\* an order that is not the sorted one, the same organization twice.
OrgLists == {<<S_acme>>, <<S_beta, S_acme>>, <<S_acme, S_acme>>}

\* What one fetch of a listing page can give: a failure before any record is
\* read (transport error, HTTP error status, a body that is no JSON list), the
\* full_name fields of the page (an empty page included), or records with a
\* full_name followed by one without (KeyError after the first were appended).
PageError == [kind |-> "error"]
PageOf(names) == [kind |-> "page", names |-> names]
PageMalformedAfter(names) == [kind |-> "malformed", names |-> names]
PageResponses(org, room) ==
    {PageError}
    \cup {PageOf(ns) : ns \in SeqsOf({full_name(org, n) : n \in RepoNames}, 0, room)}
    \cup {PageMalformedAfter(ns) :
             ns \in SeqsOf({full_name(org, n) : n \in RepoNames}, 1, room)}

---------------------------------------------------------------------------
(* sorted() *)

\* tuple.__lt__ on (repo, status) pairs
PairLess(a, b) ==
    \/ StrLess(a[1], b[1])
    \/ a[1] = b[1] /\ StrLess(a[2], b[2])

\* The comparison of a descending sort.
PyLess_descending(type, a, b) ==
    IF type = "tuple" THEN PairLess(b, a) ELSE StrLess(b, a)

\* a < b for two values of the given type, "str" or "tuple" (of two strs)
PyLess(type, a, b) == IF type = "tuple" THEN PairLess(a, b) ELSE StrLess(a, b)

\* A report that keeps the order in which the outcomes were collected.
sorted_unsorted(s, type) == s

\* sorted(s) for a list s of values of the given type: a stable sort
sorted(s, type) ==
    LET rank(i) == 1 + Cardinality({j \in DOMAIN s : PyLess(type, s[j], s[i])})
                     + Cardinality({j \in DOMAIN s : j < i /\ s[j] = s[i]})
    IN  [k \in DOMAIN s |-> s[CHOOSE i \in DOMAIN s : rank(i) = k]]

---------------------------------------------------------------------------
(* The report, lines 123-138 and 143-158 *)

\* the dict literal of lines 125-130
empty_status_groups(prefix) ==
    DictSet(DictSet(DictSet(DictSet(EmptyDict,
        HasLabel(prefix), <<>>),
        NoLabel(prefix), <<>>),
        S_NoPackageJson, <<>>),
        S_Error, <<>>)

\* lines 131-132: status_groups[status].append(repo) for each item in turn
RECURSIVE append_items(_, _)
append_items(groups, items) ==
    IF items = <<>> THEN groups
    ELSE LET repo == Head(items)[1]
             status == Head(items)[2]
         IN  append_items(
                 DictSet(groups, status, Append(groups.val[status], repo)),
                 Tail(items))

\* lines 134-138: each bucket is written through sorted(repos)
sort_buckets(groups) ==
    [keys |-> groups.keys,
     val  |-> [k \in DOMAIN groups.val |-> sorted(groups.val[k], "str")]]

status_groups_of(prefix, results) ==
    sort_buckets(append_items(empty_status_groups(prefix),
                              sorted(Items(results), "tuple")))

build_report(prefix, results_by_org) ==
    [i \in DOMAIN results_by_org.keys |->
        [org |-> results_by_org.keys[i],
         status_groups |->
            status_groups_of(prefix, results_by_org.val[results_by_org.keys[i]])]]

---------------------------------------------------------------------------
(* The run: main from line 99 on, the organization list read and non-empty *)

Init ==
    /\ orgs \in OrgLists
    /\ dep_prefix \in Prefixes
    /\ max_workers \in 0..MaxWorkers
    /\ pc = "next_org"
    /\ oi = 0
    /\ page = 0
    /\ repos = <<>>
    /\ futures = <<>>
    /\ org_results = EmptyDict
    /\ all_results = EmptyDict
    /\ report = <<>>
    /\ listing = <<>>
    /\ fetched = <<>>
    /\ probe_call = NoCall
    /\ probe_ret = NotCalled

config == <<orgs, dep_prefix, max_workers>>
probe_vars == <<probe_call, probe_ret>>

\* the futures whose task is in the given state
InState(st) == {i \in DOMAIN futures : futures[i].state = st}
\* the futures as_completed has not handed to the loop yet
NotYielded == {i \in DOMAIN futures : ~futures[i].yielded}

\* the number of repository entries the listing endpoint has returned so far
RECURSIVE SumLen(_)
SumLen(ls) == IF ls = <<>> THEN 0 ELSE Len(Head(ls)) + SumLen(Tail(ls))
Listed_so_far == SumLen(listing) + Len(repos)

\* line 100: the for loop takes the next organization; line 102 enters
\* get_org_repos (lines 15-16)
StartOrg ==
    /\ pc = "next_org"
    /\ oi < Len(orgs)
    /\ oi' = oi + 1
    /\ repos' = <<>>
    /\ page' = 1
    /\ fetched' = <<>>
    /\ pc' = "fetch_page"
    /\ UNCHANGED <<config, futures, org_results, all_results, report, listing,
                   probe_vars>>

\* A loop that asks for the same page again.
next_page_same(p) == p

\* line 31: page += 1
next_page(p) == p + 1

\* A loop that goes from a page straight to the next request.
pc_after_page_no_sleep == "fetch_page"

\* line 32: after a non-empty page the loop sleeps before it iterates
pc_after_page == "page_sleep"

\* the entries of fetched: a request for a page with its answer, and a sleep
FetchEvent(p, resp) == [ev |-> "fetch", page |-> p, resp |-> resp]
SleepEvent == [ev |-> "sleep"]

\* lines 22-35: one iteration of the while loop up to the sleep, or the break
FetchPage ==
    /\ pc = "fetch_page"
    /\ \E resp \in PageResponses(orgs[oi],
                     IF page <= MaxPages THEN MaxRepos - Listed_so_far ELSE 0) :
          /\ fetched' = Append(fetched, FetchEvent(page, resp))
          /\ IF resp.kind = "error" \/ resp.names = <<>>
             THEN /\ pc' = "listed"
                  /\ UNCHANGED <<repos, page>>
             ELSE IF resp.kind = "malformed"
             THEN /\ repos' = repos \o resp.names
                  /\ pc' = "listed"
                  /\ UNCHANGED page
             ELSE /\ repos' = repos \o resp.names
                  /\ page' = next_page(page)
                  /\ pc' = pc_after_page
    /\ UNCHANGED <<config, oi, futures, org_results, all_results, report, listing,
                   probe_vars>>

\* line 32: time.sleep(1), then the next iteration
PageSleep ==
    /\ pc = "page_sleep"
    /\ pc' = "fetch_page"
    /\ fetched' = Append(fetched, SleepEvent)
    /\ UNCHANGED <<config, oi, page, repos, futures, org_results, all_results,
                   report, listing, probe_vars>>

\* A main that scans an organization without repositories too.
skips_org_never(rs) == FALSE

\* line 103: if not repos
skips_org(rs) == rs = <<>>

\* lines 36, 102-107: get_org_repos returns; an empty list skips the organization
Listed ==
    /\ pc = "listed"
    /\ listing' = Append(listing, repos)
    /\ page' = 0
    /\ fetched' = <<>>
    /\ IF skips_org(repos)
       THEN /\ pc' = "next_org"
            /\ UNCHANGED org_results
       ELSE /\ pc' = "submit"
            /\ org_results' = EmptyDict
    /\ UNCHANGED <<config, oi, repos, futures, all_results, report, probe_vars>>

\* lines 111-113: the executor is built (ValueError unless max_workers > 0)
\* and one task per entry of repos is submitted, in order
Submit ==
    /\ pc = "submit"
    /\ IF max_workers <= 0
       THEN /\ pc' = "crashed"
            /\ UNCHANGED futures
       ELSE /\ pc' = "collect"
            /\ futures' = [i \in DOMAIN repos |->
                              [repo |-> repos[i], state |-> "pending", sent |-> 0,
                               response |-> NoResponse, result |-> NotCalled,
                               yielded |-> FALSE]]
    /\ UNCHANGED <<config, oi, page, repos, org_results, all_results, report,
                   listing, fetched, probe_vars>>

\* A pool that starts a thread for every queued task.
CanStart_unbounded(i) ==
    /\ futures[i].state = "pending"
    /\ \A j \in InState("pending") : i <= j

\* an idle worker thread takes the oldest queued task and sends its request
\* (line 46); the pool never runs more than max_workers threads
CanStart(i) ==
    /\ futures[i].state = "pending"
    /\ \A j \in InState("pending") : i <= j
    /\ Cardinality(InState("running")) < max_workers

StartProbe(i) ==
    /\ pc \in {"collect", "probe_sleep", "unwind"}
    /\ CanStart(i)
    /\ futures' = [futures EXCEPT ![i].state = "running",
                                  ![i].sent = futures[i].sent + 1]
    /\ UNCHANGED <<config, pc, oi, page, repos, org_results, all_results, report,
                   listing, fetched, probe_vars>>

\* A probe that goes back to the queue when it ended in 'Error'.
task_state_after_retrying(result) ==
    IF result.kind = "return" /\ result.status = S_Error
    THEN "pending" ELSE "finished"

\* lines 46-63: the task is over when check_dep_in_repo has returned or raised,
\* whatever the outcome; nothing sends the request again
task_state_after(result) == "finished"

\* the request of a running task ends and check_dep_in_repo ends with it
FinishProbe(i) ==
    /\ futures[i].state = "running"
    /\ \E resp \in ScanResponses :
          LET result == check_dep_in_repo(futures[i].repo, dep_prefix, resp)
          IN  futures' = [futures EXCEPT
                             ![i].state = task_state_after(result),
                             ![i].response = resp,
                             ![i].result = result]
    /\ UNCHANGED <<config, pc, oi, page, repos, org_results, all_results, report,
                   listing, fetched, probe_vars>>

\* line 116: org_results[repo] = status
record_result(results, result) == DictSet(results, result.repo, result.status)

\* lines 114-116: as_completed hands over a finished future; future.result()
\* re-raises what the task raised, and unpacking None raises TypeError
Collect(i) ==
    /\ pc = "collect"
    /\ i \in NotYielded
    /\ futures[i].state = "finished"
    /\ futures' = [futures EXCEPT ![i].yielded = TRUE]
    /\ IF futures[i].result.kind = "return"
       THEN /\ org_results' = record_result(org_results, futures[i].result)
            /\ pc' = "probe_sleep"
       ELSE /\ pc' = "unwind"
            /\ UNCHANGED org_results
    /\ UNCHANGED <<config, oi, page, repos, all_results, report, listing,
                   fetched, probe_vars>>

\* line 117: time.sleep(0.5), then back to as_completed
ProbeSleep ==
    /\ pc = "probe_sleep"
    /\ pc' = "collect"
    /\ UNCHANGED <<config, oi, page, repos, futures, org_results, all_results,
                   report, listing, fetched, probe_vars>>

\* A loop that ends as soon as one future has been handed over.
as_completed_exhausted_early == NotYielded # DOMAIN futures

\* An iterator that does not block: it ends when no finished future is waiting.
as_completed_exhausted_nonblocking ==
    \A i \in NotYielded : futures[i].state # "finished"

\* line 114: the iterator ends when every future has been handed over
as_completed_exhausted == NotYielded = {}

\* a future that is not done or whose result was not taken
StillOpen(f) == f.state # "finished" \/ ~f.yielded

\* as_completed is exhausted, the with block ends (the futures that are done
\* go with it), line 119 stores the result
StoreOrg ==
    /\ pc = "collect"
    /\ as_completed_exhausted
    /\ all_results' = DictSet(all_results, orgs[oi], org_results)
    /\ futures' = SelectSeq(futures, StillOpen)
    /\ repos' = <<>>
    /\ org_results' = EmptyDict
    /\ pc' = "next_org"
    /\ UNCHANGED <<config, oi, page, report, listing, fetched, probe_vars>>

\* an exception leaves the with block: the executor's shutdown waits for every
\* submitted task, then the exception leaves main
Unwind ==
    /\ pc = "unwind"
    /\ \A i \in DOMAIN futures : futures[i].state = "finished"
    /\ pc' = "crashed"
    /\ UNCHANGED <<config, oi, page, repos, futures, org_results, all_results,
                   report, listing, fetched, probe_vars>>

\* lines 122-159: the loop over orgs is over, the report is printed and saved
EmitReport ==
    /\ pc = "next_org"
    /\ oi = Len(orgs)
    /\ report' = build_report(dep_prefix, all_results)
    /\ pc' = "done"
    /\ UNCHANGED <<config, oi, page, repos, futures, org_results, all_results,
                   listing, fetched, probe_vars>>

Next ==
    \/ StartOrg
    \/ FetchPage
    \/ PageSleep
    \/ Listed
    \/ Submit
    \/ \E i \in DOMAIN futures : StartProbe(i)
    \/ \E i \in DOMAIN futures : FinishProbe(i)
    \/ \E i \in DOMAIN futures : Collect(i)
    \/ ProbeSleep
    \/ StoreOrg
    \/ Unwind
    \/ EmitReport

Spec == Init /\ [][Next]_vars

---------------------------------------------------------------------------
(* check_dep_in_repo on its own: one call, for every repository, prefix and
   answer of the manifest endpoint *)

ProbeRepos == {full_name(o, <<"a">>) : o \in OrgNames}

InitProbe ==
    /\ probe_call \in [kind : {"call"}, repo : ProbeRepos, dep_prefix : Prefixes,
                       response : Responses]
    /\ probe_ret = NotCalled
    /\ orgs = <<>>
    /\ dep_prefix = probe_call.dep_prefix
    /\ max_workers = 0
    /\ pc = "probe"
    /\ oi = 0
    /\ page = 0
    /\ repos = <<>>
    /\ futures = <<>>
    /\ org_results = EmptyDict
    /\ all_results = EmptyDict
    /\ report = <<>>
    /\ listing = <<>>
    /\ fetched = <<>>

CallProbe ==
    /\ pc = "probe"
    /\ probe_ret = NotCalled
    /\ probe_ret' = check_dep_in_repo(probe_call.repo, probe_call.dep_prefix,
                                      probe_call.response)
    /\ UNCHANGED <<config, pc, oi, page, repos, futures, org_results, all_results,
                   report, listing, fetched, probe_call>>

NextProbe == CallProbe

SpecProbe == InitProbe /\ [][NextProbe]_vars

---------------------------------------------------------------------------
(* Properties of check_dep_in_repo, under SpecProbe *)

Called == probe_ret # NotCalled

\* The four outcomes: HasDependency, MissingDependency, NoManifest, ProbeError.
FourOutcomes(prefix) == {HasLabel(prefix), NoLabel(prefix), S_NoPackageJson, S_Error}

\* The manifest of one dependency, {"dependencies": {name: "1.0"}}
ManifestDeclaring(member, name) ==
    JsonText(JObject([k \in {member} |->
        JObject([d \in {name} |-> JString(<<"1", ".", "0">>)])]))

\* A 200 body that is not valid structured manifest content.
InvalidManifest(text) ==
    \/ ~text.json
    \/ text.value.type # "object"
    \/ \E k \in DOMAIN text.value.members : text.value.members[k].type # "object"

\* The dependency names a valid manifest declares, in either member.
DeclaredNames(text) ==
    UNION {DOMAIN text.value.members[k].members : k \in DOMAIN text.value.members}

\* p is a prefix of s, character by character, case-sensitive
IsPrefixOf(p, s) == Len(p) <= Len(s) /\ \A i \in 1..Len(p) : s[i] = p[i]

\* C3: whatever the manifest endpoint answers (any status, any body, any
\* transport failure), check_dep_in_repo returns (repo, status) with status one
\* of the four outcomes: never no value, never a value outside the set.
C3_ProbeIsTotal ==
    Called =>
        /\ probe_ret.kind = "return"
        /\ probe_ret.repo = probe_call.repo
        /\ probe_ret.status \in FourOutcomes(probe_call.dep_prefix)

\* C4: a transport failure, or a status that is neither 2xx nor 404, is
\* classified ProbeError; in the scenario of acme/a, acme/b and acme/c the three
\* answers classify as HasDependency, NoManifest and ProbeError.
C4_FailuresAreProbeError ==
    Called =>
        LET resp == probe_call.response
            repo == probe_call.repo
        IN  /\ resp.kind = "exception" => probe_ret = Returned(repo, S_Error)
            /\ (resp.kind = "response" /\ resp.status_code \notin 200..299
                    /\ resp.status_code # 404)
                 => probe_ret = Returned(repo, S_Error)
            /\ (probe_call.dep_prefix = S_ag_grid /\ resp.kind = "response"
                    /\ resp.status_code = 200
                    /\ resp.text = ManifestDeclaring("dependencies", S_ag_grid_community))
                 => probe_ret = Returned(repo, HasLabel(S_ag_grid))
            /\ (resp.kind = "response" /\ resp.status_code = 404)
                 => probe_ret = Returned(repo, S_NoPackageJson)

\* C5: a 200 answer whose body is not valid structured manifest content (not
\* JSON, JSON that is no object, an object whose dependencies or devDependencies
\* is no mapping) is classified ProbeError, never MissingDependency.
C5_InvalidBodyIsProbeError ==
    (Called /\ probe_call.response.kind = "response"
        /\ probe_call.response.status_code = 200
        /\ InvalidManifest(probe_call.response.text))
      => probe_ret = Returned(probe_call.repo, S_Error)

\* C6: a 404 answer is classified NoManifest whatever its body, also a body
\* that is a valid manifest declaring the dependency.
C6_NotFoundIsNoManifest ==
    (Called /\ probe_call.response.kind = "response"
        /\ probe_call.response.status_code = 404)
      => probe_ret = Returned(probe_call.repo, S_NoPackageJson)

C6_Witness ==
    /\ Called
    /\ probe_call.dep_prefix = S_ag_grid
    /\ probe_call.response =
          HttpResponse(404, ManifestDeclaring("dependencies", S_ag_grid_community))
    /\ probe_ret.kind = "return"
    /\ probe_ret.status = S_NoPackageJson

\* C7: for a 200 answer with a valid manifest the outcome is HasDependency if
\* some name declared under dependencies or devDependencies has the prefix as
\* a case-sensitive prefix, and MissingDependency otherwise; versions are not
\* looked at. ag-grid-community and ag-gridx match ag-grid, AG-GRID does not.
C7_PrefixMatch ==
    /\ startswith(S_ag_grid_community, S_ag_grid)
    /\ startswith(S_ag_gridx, S_ag_grid)
    /\ ~startswith(S_AG_GRID, S_ag_grid)
    /\ (Called /\ probe_call.response.kind = "response"
          /\ probe_call.response.status_code = 200
          /\ ~InvalidManifest(probe_call.response.text))
        => LET prefix == probe_call.dep_prefix
               names == DeclaredNames(probe_call.response.text)
           IN  probe_ret =
                 Returned(probe_call.repo,
                          IF \E n \in names : IsPrefixOf(prefix, n)
                          THEN HasLabel(prefix) ELSE NoLabel(prefix))

\* A name with the prefix occurs under devDependencies only, next to a
\* dependency whose version, not its name, is the prefix.
C7_Witness ==
    /\ Called
    /\ probe_call.dep_prefix = S_ag_grid
    /\ probe_call.response.kind = "response"
    /\ probe_call.response.status_code = 200
    /\ probe_call.response.text =
          JsonText(JObject(
              [k \in {"dependencies", "devDependencies"} |->
                  IF k = "dependencies"
                  THEN JObject([d \in {S_AG_GRID} |-> JString(S_ag_grid)])
                  ELSE JObject([d \in {S_ag_gridx} |-> JString(<<"1", ".", "0">>)])]))
    /\ probe_ret.kind = "return"
    /\ probe_ret.status = HasLabel(S_ag_grid)

---------------------------------------------------------------------------
(* Properties of the run, under Spec *)

RunEnded == pc \in {"done", "crashed"}

HasEntry(org) == \E i \in DOMAIN report : report[i].org = org
EntryOf(org) == report[CHOOSE i \in DOMAIN report : report[i].org = org].status_groups

\* the buckets of status_groups that hold repository r
BucketsHolding(groups, r) ==
    {i \in DOMAIN groups.keys : r \in Range(groups.val[groups.keys[i]])}

RECURSIVE SumBuckets(_, _)
SumBuckets(groups, ks) ==
    IF ks = <<>> THEN 0
    ELSE Len(groups.val[Head(ks)]) + SumBuckets(groups, Tail(ks))
BucketTotal(groups) == SumBuckets(groups, groups.keys)

\* C1: at the end of a run, every repository name get_org_repos returned for
\* an organization is in exactly one bucket of the organization's report entry,
\* and the bucket sizes sum to N, the number of repositories listed.
C1_EveryRepoInOneBucket ==
    (RunEnded /\ max_workers > 0) =>
        \A k \in DOMAIN listing :
            listing[k] # <<>> =>
                /\ HasEntry(orgs[k])
                /\ \A r \in Range(listing[k]) :
                       Cardinality(BucketsHolding(EntryOf(orgs[k]), r)) = 1
                /\ BucketTotal(EntryOf(orgs[k])) = Len(listing[k])

\* C2: with a non-empty organization list (and a valid pool size) the run
\* never crashes, whatever the listing and manifest endpoints answer.
C2_NeverCrashes == max_workers > 0 => pc # "crashed"

\* C8: at most max_workers probes are in flight at any time.
C8_PoolBound == Cardinality(InState("running")) <= max_workers

\* More repositories than workers: one probe runs, one waits in the queue.
C8_Witness ==
    /\ max_workers = 1
    /\ Len(futures) = 2
    /\ InState("running") # {}
    /\ InState("pending") # {}

\* C9: the step that stores org_results into all_results is taken only when a
\* probe was dispatched for every listed repository and the outcome of every
\* one of them has been collected into org_results.
C9_NoEarlyReturn ==
    [][(pc = "collect" /\ pc' = "next_org") =>
          /\ Len(futures) = Len(repos)
          /\ \A i \in DOMAIN futures :
                /\ futures[i].state = "finished"
                /\ futures[i].yielded
                /\ futures[i].result.kind = "return"
                /\ futures[i].result.repo \in Range(org_results.keys)
          /\ all_results'.val[orgs[oi]] = org_results]_vars

\* An organization stored with two outcomes collected in the reverse of the
\* submission order.
C9_Witness ==
    /\ pc = "next_org"
    /\ oi >= 1
    /\ orgs[oi] \in Range(all_results.keys)
    /\ Len(all_results.val[orgs[oi]].keys) = 2
    /\ listing[oi] = <<all_results.val[orgs[oi]].keys[2],
                       all_results.val[orgs[oi]].keys[1]>>

\* the scan of the current organization is over: the loop is exhausted or the
\* exception has left main
ScanOver ==
    /\ futures # <<>>
    /\ pc = "crashed" \/ (pc = "collect" /\ NotYielded = {})

\* C10: when one probe ends in ProbeError, every sibling probe has still been
\* executed and an outcome is recorded for each sibling, the one its own
\* response gave.
C10_FailureIsolation ==
    ScanOver =>
        \A i, j \in DOMAIN futures :
            (/\ futures[i].repo # futures[j].repo
             /\ futures[i].result = Returned(futures[i].repo, S_Error)) =>
                /\ futures[j].state = "finished"
                /\ futures[j].repo \in Range(org_results.keys)
                /\ org_results.val[futures[j].repo] \in
                      {futures[k].result.status : k \in
                          {n \in DOMAIN futures :
                              /\ futures[n].repo = futures[j].repo
                              /\ futures[n].result.kind = "return"}}

---------------------------------------------------------------------------
(* Properties of get_org_repos, under Spec *)

IsFetch(e) == e.ev = "fetch"
\* the page requests of the call under way, in the order they were made
Fetches == SelectSeq(fetched, IsFetch)

NonEmptyPage(e) == e.resp.kind = "page" /\ e.resp.names # <<>>
EmptyPage(e) == e.resp = PageOf(<<>>)
FailedFetch(e) == e.resp = PageError

\* the full_name fields of the pages of fs, page after page
RECURSIVE NamesOf(_)
NamesOf(fs) ==
    IF fs = <<>> THEN <<>> ELSE Head(fs).resp.names \o NamesOf(Tail(fs))

AllButLast(fs) == SubSeq(fs, 1, Len(fs) - 1)

\* C11: get_org_repos requests the pages 1, 2, 3, ... in order and makes no
\* request after the first empty page: with k non-empty pages followed by an
\* empty one it has made k+1 requests when it stops, and what it returns is the
\* concatenation of the full_name fields of the k pages, in page order.
C11_PagesUntilEmpty ==
    LET F == Fetches
    IN  /\ \A i \in DOMAIN F : F[i].page = i
        /\ \A i \in DOMAIN F : i < Len(F) => NonEmptyPage(F[i])
        /\ (F # <<>> /\ EmptyPage(F[Len(F)])) =>
               /\ pc = "listed"
               /\ repos = NamesOf(AllButLast(F))

\* Two non-empty pages and the empty third one: three requests, two names.
C11_Witness ==
    /\ pc = "listed"
    /\ Len(Fetches) = 3
    /\ NonEmptyPage(Fetches[1])
    /\ NonEmptyPage(Fetches[2])
    /\ EmptyPage(Fetches[3])
    /\ Len(repos) = 2

\* the main thread and the workers keep running, and every request ends (it has
\* a timeout): a step that can be taken is taken
SpecFair == Spec /\ WF_vars(Next)

\* C12: when the fetch of page k fails, get_org_repos makes no further request
\* for the organization and returns the names of the pages 1..k-1, and the run
\* goes on to list and scan every later organization of the input, up to the
\* report.
C12_ListingFailureIsolated ==
    /\ [](LET F == Fetches
          IN  /\ \A i \in DOMAIN F : i < Len(F) => ~FailedFetch(F[i])
              /\ (F # <<>> /\ FailedFetch(F[Len(F)])) =>
                     /\ pc = "listed"
                     /\ repos = NamesOf(AllButLast(F)))
    /\ (/\ pc = "listed"
        /\ max_workers > 0
        /\ oi < Len(orgs)
        /\ Fetches # <<>>
        /\ FailedFetch(Fetches[Len(Fetches)])) ~> (pc = "done")

---------------------------------------------------------------------------
(* Properties of the report, under Spec *)

\* ascending lexicographic order of two names, character by character
RECURSIVE LexLess(_, _)
LexLess(a, b) ==
    IF b = <<>> THEN FALSE
    ELSE IF a = <<>> THEN TRUE
    ELSE IF Head(a) = Head(b) THEN LexLess(Tail(a), Tail(b))
    ELSE Ord(Head(a)) < Ord(Head(b))

Ascending(names) ==
    \A i, j \in DOMAIN names : i < j => LexLess(names[i], names[j])

\* the one ascending enumeration of a set of names
Enumerated(S) == CHOOSE names \in [1..Cardinality(S) -> S] : Ascending(names)

\* the collection loop has ended normally and nothing is stored yet
ScanCollected == pc = "collect" /\ futures # <<>> /\ NotYielded = {}

\* every manifest request for one repository got the same answer
SameRemoteState ==
    \A i, j \in DOMAIN futures :
        futures[i].repo = futures[j].repo =>
            futures[i].response = futures[j].response

\* C13: the report is a function of the organization list and of the answers
\* of the remote, whatever the order in which the probes end and are
\* collected: the outcome recorded for a repository is the one its manifest
\* answer gives, an organization has an entry exactly when a listing of it
\* returned names, and a bucket of the report is the ascending enumeration of
\* the repositories recorded with its label.
C13_ReportIsDeterministic ==
    /\ (ScanCollected /\ SameRemoteState) =>
           /\ Range(org_results.keys) = Range(repos)
           /\ \A i \in DOMAIN futures :
                  org_results.val[futures[i].repo] =
                      check_dep_in_repo(futures[i].repo, dep_prefix,
                                        futures[i].response).status
    /\ pc = "done" =>
           /\ {report[i].org : i \in DOMAIN report} =
                  {orgs[k] : k \in {n \in DOMAIN orgs : listing[n] # <<>>}}
           /\ \A i \in DOMAIN report :
                  LET recorded == all_results.val[report[i].org]
                      groups == report[i].status_groups
                  IN  /\ \A r \in Range(recorded.keys) :
                             recorded.val[r] \in Range(groups.keys)
                      /\ \A label \in Range(groups.keys) :
                             groups.val[label] =
                                 Enumerated({r \in Range(recorded.keys) :
                                             recorded.val[r] = label})

\* A report with a bucket of two repositories that were collected in the
\* descending order.
C13_Witness ==
    /\ pc = "done"
    /\ \E i \in DOMAIN report :
          LET recorded == all_results.val[report[i].org]
          IN  /\ Len(recorded.keys) = 2
              /\ LexLess(recorded.keys[2], recorded.keys[1])
              /\ recorded.val[recorded.keys[1]] = recorded.val[recorded.keys[2]]

\* C14 as claimed: an organization whose listing came back empty (a failure on
\* the first page, or no repositories) has an entry in the final report, and
\* the buckets of the entry are empty when no listing of it returned names.
C14_FailedOrgHasEmptyEntry ==
    pc = "done" =>
        \A k \in DOMAIN orgs :
            listing[k] = <<>> =>
                /\ HasEntry(orgs[k])
                /\ (\A j \in DOMAIN orgs : orgs[j] = orgs[k] => listing[j] = <<>>)
                       => BucketTotal(EntryOf(orgs[k])) = 0

\* C14, amended: an organization whose listing came back empty (a failure on
\* the first page, or no repositories) is skipped: it has no entry in the final
\* report, unless its name occurs again in the input with a listing that
\* returned names, and then the entry is the one of that listing.
C14_FailedOrgIsSkipped ==
    pc = "done" =>
        \A k \in DOMAIN orgs :
            listing[k] = <<>> =>
                IF \A j \in DOMAIN orgs : orgs[j] = orgs[k] => listing[j] = <<>>
                THEN ~HasEntry(orgs[k])
                ELSE HasEntry(orgs[k]) /\ BucketTotal(EntryOf(orgs[k])) > 0

\* A report with an entry for one organization and none for the other, whose
\* listing came back empty.
C14_Witness ==
    /\ pc = "done"
    /\ Len(orgs) = 2
    /\ report # <<>>
    /\ \E k \in DOMAIN orgs : listing[k] = <<>> /\ ~HasEntry(orgs[k])

---------------------------------------------------------------------------
(* Pacing and order of the requests, under Spec *)

\* the main thread is inside the with block of lines 111-117
Scanning == pc \in {"collect", "probe_sleep", "unwind"}

\* the manifest requests sent so far for the organization being scanned
RequestsSent == Cardinality({i \in DOMAIN futures : futures[i].sent > 0})

\* the pacing delays of line 117 that have elapsed in this scan
DelaysElapsed ==
    Cardinality({i \in DOMAIN futures :
                    futures[i].yielded /\ futures[i].result.kind = "return"})
        - (IF pc = "probe_sleep" THEN 1 ELSE 0)

\* C15: the manifest requests are paced: between any two manifest requests
\* sent for an organization a pacing delay elapses (and a delay follows every
\* probe completion), so that when k requests have been sent at least k-1
\* delays have elapsed.
C15_ProbesArePaced == Scanning => RequestsSent <= DelaysElapsed + 1

\* C16: between two consecutive page requests of one listing exactly one pacing
\* delay is taken, and nothing else: the log of a get_org_repos call alternates
\* request, delay, request, ..., so page k+1 is never requested before the
\* delay that follows the fetch of page k has elapsed.
C16_OneDelayBetweenPages ==
    \A i \in DOMAIN fetched : IsFetch(fetched[i]) <=> i % 2 = 1

\* Page 2 is being requested after page 1 and its delay.
C16_Witness ==
    /\ pc = "listed"
    /\ Len(Fetches) = 2
    /\ fetched[2] = SleepEvent

\* C17: the organizations are processed one at a time: while a page of an
\* organization is fetched, and whenever the main thread is outside the scan,
\* no probe of an earlier organization is queued, in flight or uncollected, and
\* the probes that exist are all of the organization listed last.
C17_OneOrgAtATime ==
    /\ pc \in {"next_org", "fetch_page", "page_sleep", "listed", "submit", "done"}
           => futures = <<>>
    /\ \A i \in DOMAIN futures : futures[i].repo \in Range(listing[oi])

\* The second organization is being listed after the first one was scanned and
\* stored.
C17_Witness ==
    /\ pc = "fetch_page"
    /\ oi = 2
    /\ listing[1] # <<>>
    /\ orgs[1] \in Range(all_results.keys)

---------------------------------------------------------------------------
(* Order and labels of the report, and the requests behind it, under Spec *)

\* the first place of the input at which org was listed with repositories
FirstStored(org) ==
    CHOOSE k \in DOMAIN orgs :
        /\ orgs[k] = org /\ listing[k] # <<>>
        /\ \A j \in 1..(k - 1) : ~(orgs[j] = org /\ listing[j] # <<>>)

\* C18: in the final report the names of every bucket are in ascending
\* lexicographic order, and the organizations come in the order in which they
\* were first stored while the input list was walked, each one once, whatever
\* the order in which the probes ended.
C18_SortedReport ==
    pc = "done" =>
        /\ \A i \in DOMAIN report :
               \A label \in Range(report[i].status_groups.keys) :
                   Ascending(report[i].status_groups.val[label])
        /\ \A i \in DOMAIN report :
               \E k \in DOMAIN orgs : orgs[k] = report[i].org /\ listing[k] # <<>>
        /\ \A i, j \in DOMAIN report :
               i < j => FirstStored(report[i].org) < FirstStored(report[j].org)

\* A report of two organizations that are not in alphabetical order in the
\* input.
C18_Witness ==
    /\ pc = "done"
    /\ Len(report) = 2
    /\ LexLess(report[2].org, report[1].org)

\* the manifest requests sent in this scan for repository r
ProbesOf(r) ==
    Cardinality({i \in DOMAIN futures : futures[i].repo = r /\ futures[i].sent > 0})

EndedNoManifest(f) ==
    f.response.kind = "response" /\ f.response.status_code = 404

\* the probe read a manifest that declares no matching dependency (line 59)
EndedMissingDependency(f) ==
    /\ f.response.kind = "response"
    /\ f.response.status_code = 200
    /\ f.result = Returned(f.repo, NoLabel(dep_prefix))

\* C20: for every prefix the four buckets of a report entry are four distinct
\* buckets, and a repository whose manifest lacks the dependency is never
\* recorded under the label of a repository that has no manifest.
C20_BucketsDistinct ==
    /\ pc = "done" =>
           \A i \in DOMAIN report : Len(report[i].status_groups.keys) = 4
    /\ ScanCollected =>
           \A i, j \in DOMAIN futures :
               (EndedNoManifest(futures[i]) /\ EndedMissingDependency(futures[j]))
                   => org_results.val[futures[i].repo] #
                          org_results.val[futures[j].repo]

=============================================================================
